---- MODULE Spec2Model ----
(***************************************************************************)
(* The watch loop of src/src/services/watch.py (WatchManager) together     *)
(* with the paper ledger of src/src/services/ledger.py (TradeLedger) and   *)
(* the radar's auto-buy of src/src/services/radar.py.                      *)
(*                                                                         *)
(* Numbers.  Prices are integers in thousandths (1000 is 1.00), USD        *)
(* amounts are cents, fractions of the configuration are percentages.      *)
(* The floating-point products and quotients of the source are computed    *)
(* with integer division, truncating.  A price of 0 stands for the falsy   *)
(* values of the source (None, a missing key, 0.0): the source tests them  *)
(* with `or`.                                                              *)
(*                                                                         *)
(* Steps.  The tick loop runs on a cooperative scheduler, so the radar     *)
(* and add_candidate run only while the loop is suspended.  Each action    *)
(* of the loop runs from one suspension point (the sleep, the price        *)
(* fetch, the route quote, the chase quote, the chase's second fetch, the   *)
(* notification sent after a Ledger call) to the next.                     *)
(***************************************************************************)
EXTENDS Integers, Sequences, FiniteSets, TLC

VARIABLES
    DRY_RUN,          \* Cfg.DRY_RUN
    PAPER_AUTOTRADE,  \* Cfg.PAPER_AUTOTRADE
    RUG_ENABLED,      \* Cfg.RUG_ENABLED
    GAP_PROTECT,      \* Cfg.GAP_PROTECT
    MAX_OPEN_POSITIONS, \* Cfg.MAX_OPEN_POSITIONS
    WATCHLIST_MAX,    \* Cfg.WATCHLIST_MAX
    ledgerHasMark,    \* does the ledger object given to WatchManager define mark()
    positions,        \* TradeLedger.positions: sequence of position records, insertion order
    balance,          \* TradeLedger.balance, cents
    watch,            \* WatchManager.watch: sequence of entry records, insertion order
    now,              \* time.time(), seconds
    pc,               \* where WatchManager.run is suspended
    posQ,             \* rest of list(self.ledger.positions.items()), head is being ticked
    watchQ,           \* rest of list(self.watch.items()) (the mints), head is being ticked
    quote,            \* the quote `q` held by _maybe_chase_entry across its second fetch
    ticked,           \* mints whose current position _tick_position has evaluated
    closedInTick,     \* mints whose position the current tick has closed
    preempts,         \* steps the other tasks took while a tick was suspended
    ev,               \* what the last step did (the log line of the step)
    bars,             \* trailing.py: the (high, low, close) bars given to the functions
    windowArg,        \* trailing.py: the span given to ema, the window given to atr
    returned          \* trailing.py: the last call and what it returned

vars == <<DRY_RUN, PAPER_AUTOTRADE, RUG_ENABLED, GAP_PROTECT, MAX_OPEN_POSITIONS,
          WATCHLIST_MAX, ledgerHasMark,
          positions, balance,
          watch, now, pc, posQ, watchQ, quote, ticked, closedInTick, preempts, ev,
          bars, windowArg, returned>>

\* the inputs and the result of the functions of trailing.py
calcVars == <<bars, windowArg, returned>>

\* what no step of the watch loop, of the radar or of the Ledger writes
cfgVars == <<DRY_RUN, PAPER_AUTOTRADE, RUG_ENABLED, GAP_PROTECT, MAX_OPEN_POSITIONS,
            WATCHLIST_MAX, ledgerHasMark, calcVars>>

\* the variables of the watch loop, the radar and the Ledger
loopVars == <<positions, balance, watch, now, pc, posQ, watchQ, quote, ticked,
             closedInTick, preempts, ev>>

(***************************************************************************)
(* Bounds of the model.                                                    *)
(***************************************************************************)
MaxTicks == 2

Mints == {"m1", "m2"}

\* prices MarketData and the Router can report; 0 is "unavailable"
Prices == {1000, 2075, 3200}

Fetches == Prices \cup {0}

(***************************************************************************)
(* Configuration, src/src/config.py.  Every value is read from the         *)
(* environment; the values here are one configuration.                     *)
(***************************************************************************)
FEE_CAP_PCT == 3

MAX_SLIPPAGE_PCT == 3

PAPER_START_BAL_USD == 4000

PER_TRADE_USD_TARGET == 1000

PER_TRADE_USD_MIN == 800

TOTAL_EXPOSURE_CAP_PCT == 75

ATR_WINDOW == 12

\* TRAIL_K = 2.8, in tenths
TRAIL_K == 28

HARD_STOP_PCT == 20

GAP_PCT == 8

RUG_DROP_PCT == 35

WATCH_TICK_SEC == 1

\* WATCH_ENTRY_ACCEL_PCT = 2.5, in tenths of a percent
WATCH_ENTRY_ACCEL_PCT == 25

WATCH_QUOTE_INTERVAL_S == 2

WATCH_ROUTE_FAILS_EXIT == 2

(***************************************************************************)
(* Python dicts keyed by mint, as sequences of records in insertion order. *)
(***************************************************************************)
Keys(d) == {d[i].mint : i \in 1..Len(d)}

Has(d, k) == k \in Keys(d)

Get(d, k) == d[CHOOSE i \in 1..Len(d) : d[i].mint = k]

\* d[k] = v: an existing key keeps its place, a new key goes last
Put(d, v) ==
    IF Has(d, v.mint)
    THEN [i \in 1..Len(d) |-> IF d[i].mint = v.mint THEN v ELSE d[i]]
    ELSE Append(d, v)

\* d.pop(k, None)
Pop(d, k) == SelectSeq(d, LAMBDA r : r.mint # k)

MintsOf(q) == [i \in 1..Len(q) |-> q[i].mint]

Range(s) == {s[i] : i \in 1..Len(s)}

Max(a, b) == IF a >= b THEN a ELSE b

Abs(a) == IF a >= 0 THEN a ELSE -a

\* the fee and the slippage of the quote the radar's gate accepted (meta["fee_pct"],
\* meta["slip_pct"]): one quote under the caps
RADAR_FEE_PCT == 1

RADAR_SLIP_PCT == 1

NoQuote == [ok |-> FALSE, price |-> 0, fee_pct |-> 0, slip_pct |-> 0]

\* Router.quote_buy results: a failure, quotes under the caps, quotes over a cap
Quotes ==
    {NoQuote}
    \cup {[ok |-> TRUE, price |-> p, fee_pct |-> 1, slip_pct |-> 1] : p \in Prices}
    \cup {[ok |-> TRUE, price |-> 1000, fee_pct |-> FEE_CAP_PCT + 1, slip_pct |-> 1],
          [ok |-> TRUE, price |-> 1000, fee_pct |-> 1, slip_pct |-> MAX_SLIPPAGE_PCT + 1]}

(***************************************************************************)
(* TradeLedger                                                             *)
(***************************************************************************)
SumEntryUsd(P) ==
    LET RECURSIVE S(_)
        S(i) == IF i = 0 THEN 0 ELSE P[i].entry_usd + S(i - 1)
    IN S(Len(P))

\* a free_capacity_ok without the minimum trade size of lines 29-30
FreeCapacityOkNoMinimum(P, bal, max_open, next_entry_usd) ==
    LET denom == IF bal > 0 THEN bal ELSE PAPER_START_BAL_USD
    IN  /\ ~(Len(P) >= max_open)
        /\ ~((SumEntryUsd(P) + next_entry_usd) * 100 > TOTAL_EXPOSURE_CAP_PCT * denom)

\* free_capacity_ok: (sum + next) / bal > cap, with the fractions cleared
FreeCapacityOk(P, bal, max_open, next_entry_usd) ==
    LET denom == IF bal > 0 THEN bal ELSE PAPER_START_BAL_USD
    IN  /\ ~(Len(P) >= max_open)
        /\ ~((SumEntryUsd(P) + next_entry_usd) * 100 > TOTAL_EXPOSURE_CAP_PCT * denom)
        /\ ~(next_entry_usd < PER_TRADE_USD_MIN)

NewPosition(mint, entry_usd, price, fee_pct, slip_pct, reason) ==
    [mint |-> mint, entry_usd |-> entry_usd, entry_price |-> price,
     fee_pct |-> fee_pct, slip_pct |-> slip_pct, reason |-> reason]

NoRow == [side |-> "", mint |-> "", entry_usd |-> 0, entry_price |-> 0,
          exit_usd |-> 0, exit_reason |-> ""]

\* open_paper: the position map and the row appended to paper_trades.csv
OpenPaper(P, mint, entry_usd, price, fee_pct, slip_pct, reason) ==
    [positions |-> Put(P, NewPosition(mint, entry_usd, price, fee_pct, slip_pct, reason)),
     row       |-> [side |-> "BUY", mint |-> mint, entry_usd |-> entry_usd,
                    entry_price |-> price, exit_usd |-> 0, exit_reason |-> ""]]

\* a close_paper that credits the exit notional without taking the entry notional off
ClosePaperCreditsExit(P, bal, mint, exit_usd, exit_reason) ==
    IF ~Has(P, mint)
    THEN [positions |-> P, balance |-> bal, row |-> NoRow]
    ELSE LET pos == Get(P, mint)
         IN  [positions |-> Pop(P, mint),
              balance   |-> bal + exit_usd,
              row       |-> [side |-> "SELL", mint |-> mint, entry_usd |-> pos.entry_usd,
                             entry_price |-> pos.entry_price, exit_usd |-> exit_usd,
                             exit_reason |-> exit_reason]]

\* a close_paper without the early return of lines 49-50: an absent mint is booked
\* as a position of no notional
ClosePaperBooksAbsent(P, bal, mint, exit_usd, exit_reason) ==
    [positions |-> Pop(P, mint),
     balance   |-> bal + (exit_usd - (IF Has(P, mint) THEN Get(P, mint).entry_usd ELSE 0)),
     row       |-> [side |-> "SELL", mint |-> mint,
                    entry_usd |-> IF Has(P, mint) THEN Get(P, mint).entry_usd ELSE 0,
                    entry_price |-> IF Has(P, mint) THEN Get(P, mint).entry_price ELSE 0,
                    exit_usd |-> exit_usd, exit_reason |-> exit_reason]]

\* close_paper: the position map, the balance and the row appended to
\* paper_trades.csv (NoRow: none); an absent mint changes nothing
ClosePaper(P, bal, mint, exit_usd, exit_reason) ==
    IF ~Has(P, mint)
    THEN [positions |-> P, balance |-> bal, row |-> NoRow]
    ELSE LET pos == Get(P, mint)
         IN  [positions |-> Pop(P, mint),
              balance   |-> bal + (exit_usd - pos.entry_usd),
              row       |-> [side |-> "SELL", mint |-> mint, entry_usd |-> pos.entry_usd,
                             entry_price |-> pos.entry_price, exit_usd |-> exit_usd,
                             exit_reason |-> exit_reason]]

(***************************************************************************)
(* WatchManager: entries                                                   *)
(***************************************************************************)
HardStop(price) == (price * (100 - HARD_STOP_PCT)) \div 100

\* add_candidate's entry: no prev_price key
CandidateEntry(mint, price) ==
    [mint |-> mint, base_price |-> price, last_price |-> price, prev_price |-> 0,
     vol_ema |-> 0, peak |-> price, trail |-> HardStop(price),
     last_quote_ts |-> 0, route_fail_streak |-> 0]

\* run's setdefault entry for a position the watch set does not hold
PositionEntry(pos) ==
    [mint |-> pos.mint, base_price |-> pos.entry_price, last_price |-> pos.entry_price,
     prev_price |-> pos.entry_price, vol_ema |-> 0, peak |-> pos.entry_price,
     trail |-> HardStop(pos.entry_price), last_quote_ts |-> 0, route_fail_streak |-> 0]

SetDefault(w, pos) == IF Has(w, pos.mint) THEN w ELSE Append(w, PositionEntry(pos))

(***************************************************************************)
(* _tick_position: the arithmetic                                          *)
(***************************************************************************)
TickPrice(fetched, st, pos) ==
    IF fetched # 0 THEN fetched
    ELSE IF st.last_price # 0 THEN st.last_price
    ELSE pos.entry_price

\* vol_ema*(1-alpha) + ret*alpha, alpha = 2/(ATR_WINDOW+1)
VolEma(vol, ret) == (vol * (ATR_WINDOW - 1) + ret * 2) \div (ATR_WINDOW + 1)

\* a candidate on the wrong side of the peak
CandidateAbovePeak(peak, vol) == peak + ((TRAIL_K * vol) \div 10)

Candidate(peak, vol) == peak - ((TRAIL_K * vol) \div 10)

\* a ratchet that forgets the comparison with the previous trail
RatchetToCandidate(trail, candidate) == candidate

Ratchet(trail, candidate) == IF candidate > trail THEN candidate ELSE trail

GapCond(price, trail) == price * 100 <= trail * (100 - GAP_PCT)

RugCond(prev, price) ==
    LET prevp == IF prev > 0 THEN prev ELSE price
    IN  prevp > 0 /\ (prevp - price) * 100 >= RUG_DROP_PCT * prevp

TrailCond(price, trail) == price <= trail

\* the entry after lines 86-101
Marked(st, price) ==
    LET prev == IF st.prev_price # 0 THEN st.prev_price ELSE price
        vol  == VolEma(st.vol_ema, Abs(price - prev))
        peak == Max(st.peak, price)
    IN  [st EXCEPT !.last_price = price, !.vol_ema = vol, !.prev_price = price,
                   !.peak = peak, !.trail = Ratchet(st.trail, Candidate(peak, vol))]

\* the chain of early returns with the trail check moved before the cliff check
DecideTrailBeforeRug(rug_enabled, prev, price, trail) ==
    IF rug_enabled /\ GapCond(price, trail) THEN "gap"
    ELSE IF TrailCond(price, trail) THEN "trail"
    ELSE IF rug_enabled /\ RugCond(prev, price) THEN "rug"
    ELSE "none"

\* the chain of early returns, lines 103-124
Decide(rug_enabled, prev, price, trail) ==
    IF rug_enabled /\ GapCond(price, trail) THEN "gap"
    ELSE IF rug_enabled /\ RugCond(prev, price) THEN "rug"
    ELSE IF TrailCond(price, trail) THEN "trail"
    ELSE "none"

\* every exit marked at the market price
ExitPriceAtMarket(decision, price, trail) == price

ExitPrice(decision, price, trail) == IF decision = "trail" THEN trail ELSE price

ExitUsd(pos, px) == (pos.entry_usd * px) \div pos.entry_price

\* a throttle that never holds a probe back
ThrottledNever(st, t) == FALSE

Throttled(st, t) == (t - st.last_quote_ts) < WATCH_QUOTE_INTERVAL_S

\* a streak update that a successful probe does not reset
RouteStreakNoReset(streak, ok) == IF ok THEN streak ELSE streak + 1

\* _route_health, lines 76-79
RouteStreak(streak, ok) == IF ok THEN 0 ELSE streak + 1

\* a result that fails the route at the first failed probe
RouteOkOnlyAtZero(streak) == streak < 1

\* _route_health's result, line 80
RouteOk(streak) == streak < WATCH_ROUTE_FAILS_EXIT

(***************************************************************************)
(* _maybe_chase_entry: the checks before the quote, lines 38-48            *)
(***************************************************************************)
\* the checks before the quote without the capacity check of line 40
ChaseWantedNoCapacity(dry, auto, capacity, st) ==
    /\ dry /\ auto
    /\ st.base_price > 0 /\ st.last_price > 0
    /\ ~((st.last_price - st.base_price) * 1000 < WATCH_ENTRY_ACCEL_PCT * st.base_price)

\* the checks before the quote without the threshold check of lines 46-48
ChaseWantedAnyMove(dry, auto, capacity, st) ==
    /\ dry /\ auto
    /\ capacity
    /\ st.base_price > 0 /\ st.last_price > 0

ChaseWanted(dry, auto, capacity, st) ==
    /\ dry /\ auto
    /\ capacity
    /\ st.base_price > 0 /\ st.last_price > 0
    /\ ~((st.last_price - st.base_price) * 1000 < WATCH_ENTRY_ACCEL_PCT * st.base_price)

\* the checks on the quote without the caps of line 54
QuoteAcceptedAnyOk(q) == q.ok

QuoteAccepted(q) ==
    /\ q.ok
    /\ ~(q.fee_pct > FEE_CAP_PCT \/ q.slip_pct > MAX_SLIPPAGE_PCT)

(***************************************************************************)
(* TGBot.safe_send and the handler of run                                  *)
(***************************************************************************)
\* an exit branch without its `return`: the tick falls through to the route probe
AfterExitFallsThrough == "route_quote"

\* the exit branches of _tick_position (lines 108-110, 115-117, 122-124): close_paper,
\* then the notification, then `return`
AfterExit == "notify"

\* a safe_send without its try/except: a failed send raises into the caller
SafeSendPropagates(sent) == IF sent THEN "sent" ELSE "raise"

\* safe_send, bot.py lines 98-104: a failed send is logged inside safe_send
SafeSend(sent) == IF sent THEN "sent" ELSE "logged"

\* a handler that ends the loop
AfterLoopErrorStops == "stopped"

\* run's handler, lines 159-161: the exception is logged and the loop sleeps
AfterLoopError == "sleep"

(***************************************************************************)
(* run: where the loop suspends next                                       *)
(***************************************************************************)
RECURSIVE SkipHeld(_, _)
\* the watch pass skips the mints the Ledger holds (line 152)
SkipHeld(wq, P) ==
    IF wq = <<>> THEN wq
    ELSE IF Has(P, Head(wq)) THEN SkipHeld(Tail(wq), P)
    ELSE wq

\* a watch pass that leaves out the newest of the mints it is given
WatchPassWithoutNewest(wq, w, P) ==
    LET rest == SkipHeld(SubSeq(wq, 1, Len(wq) - 1), P)
    IN  [pc |-> IF rest = <<>> THEN "sleep" ELSE "watch_fetch",
         posQ |-> <<>>, watchQ |-> rest, watch |-> w]

\* the watch pass from the mints wq on: suspended at the head's fetch, or asleep
WatchPass(wq, w, P) ==
    LET rest == SkipHeld(wq, P)
    IN  [pc |-> IF rest = <<>> THEN "sleep" ELSE "watch_fetch",
         posQ |-> <<>>, watchQ |-> rest, watch |-> w]

\* a run that goes to the watch pass while positions are still to be ticked
AdvanceToWatchPass(q, w, P) == WatchPass(MintsOf(w), w, P)

\* the positions pass from the items q on, then the watch pass
Advance(q, w, P) ==
    IF q # <<>>
    THEN [pc |-> "pos_fetch", posQ |-> q, watchQ |-> <<>>, watch |-> SetDefault(w, Head(q))]
    ELSE WatchPass(MintsOf(w), w, P)

\* the loop sleeps between two ticks
Idle == pc = "sleep" /\ now < WATCH_QUOTE_INTERVAL_S + MaxTicks

(***************************************************************************)
(* trailing.py: ema and atr.  The floats of the source are exact rationals *)
(* here, [num, den] in lowest terms with den > 0; the inputs are integers. *)
(***************************************************************************)
RECURSIVE Gcd(_, _)
Gcd(a, b) == IF b = 0 THEN a ELSE Gcd(b, a % b)

Rat(n, d) ==
    LET g == Gcd(Abs(n), d)
    IN  [num |-> n \div g, den |-> d \div g]

RatAdd(a, b) == Rat(a.num * b.den + b.num * a.den, a.den * b.den)

RatSub(a, b) == Rat(a.num * b.den - b.num * a.den, a.den * b.den)

RatMul(a, b) == Rat(a.num * b.num, a.den * b.den)

RatAbs(a) == [num |-> Abs(a.num), den |-> a.den]

RatLe(a, b) == a.num * b.den <= b.num * a.den

RatMax(a, b) == IF RatLe(b, a) THEN a ELSE b

\* k = 2/span: not the constant of ema
SmoothingOverSpan(span) == Rat(2, span)

\* k = 2.0/(span+1.0), line 7
Smoothing(span) == Rat(2, span + 1)

RECURSIVE EmaFrom(_, _, _)
\* the loop of lines 9-10: out so far, the values still to take
EmaFrom(out, rest, k) ==
    IF rest = <<>> THEN out
    ELSE LET last == out[Len(out)]
         IN  EmaFrom(Append(out, RatAdd(last, RatMul(k, RatSub(Head(rest), last)))),
                     Tail(rest), k)

\* ema(values, span), lines 5-11; values are rationals
Ema(values, span) ==
    IF values = <<>> THEN <<>>
    ELSE EmaFrom(<<values[1]>>, Tail(values), Smoothing(span))

Min3(a, b, c) == IF a <= b /\ a <= c THEN a ELSE IF b <= c THEN b ELSE c

\* a true range that forgets the previous close
TrueRangeOfBar(h, l, prev_close) == RatSub(h, l)

\* line 17
TrueRange(h, l, prev_close) ==
    RatMax(RatMax(RatSub(h, l), RatAbs(RatSub(h, prev_close))),
           RatAbs(RatSub(l, prev_close)))

RECURSIVE TrueRangesFrom(_, _, _, _, _)
\* the loop of lines 16-19 over zip(high, low, close) from index i on
TrueRangesFrom(high, low, close, i, prev_close) ==
    IF i > Min3(Len(high), Len(low), Len(close)) THEN <<>>
    ELSE <<TrueRange(high[i], low[i], prev_close)>>
         \o TrueRangesFrom(high, low, close, i + 1, close[i])

\* trs with the previous close starting at 0.0 whatever the closes are
TrueRangesFromZero(high, low, close) ==
    TrueRangesFrom(high, low, close, 1, Rat(0, 1))

\* trs of atr, lines 14-19
TrueRanges(high, low, close) ==
    TrueRangesFrom(high, low, close, 1,
                   IF close # <<>> THEN close[1] ELSE Rat(0, 1))

\* atr(high, low, close, window), lines 13-20
Atr(high, low, close, window) == Ema(TrueRanges(high, low, close), window)

(***************************************************************************)
(* trailing.py: trailing_only_exits, the exit evaluator of the backtest    *)
(* (services/backtest/runner.py:134).  H, L, C are the columns of the      *)
(* bars, as rationals; the percentages of the configuration are fractions  *)
(* of 100 and TRAIL_K is in tenths.                                        *)
(***************************************************************************)
RatLt(a, b) == a.num * b.den < b.num * a.den

\* a / b for b > 0
RatDiv(a, b) == Rat(a.num * b.den, a.den * b.num)

\* (x/C[0] - 1.0)*100.0, lines 37, 46, 52, 59, 63
NetPct(x, c0) == RatMul(RatSub(RatDiv(x, c0), Rat(1, 1)), Rat(100, 1))

\* line 45
BarGap(gap_protect, c, trail) ==
    gap_protect /\ RatLt(c, RatMul(trail, Rat(100 - GAP_PCT, 100)))

\* line 50
BarTrailHit(h, l, c, trail) == (RatLe(l, trail) /\ RatLe(trail, h)) \/ RatLe(c, trail)

\* lines 56-58; the closes are positive, so max(1e-9, C[i-1]) is C[i-1]
BarRug(rug_enabled, prev_c, c) ==
    rug_enabled /\ RatLe(Rat(RUG_DROP_PCT, 100), RatDiv(RatSub(prev_c, c), prev_c))

\* the chain of returns of one bar, lines 45-60
BarDecision(gap_protect, rug_enabled, h, l, c, prev_c, trail) ==
    IF BarGap(gap_protect, c, trail) THEN "gap"
    ELSE IF BarTrailHit(h, l, c, trail) THEN "trail"
    ELSE IF BarRug(rug_enabled, prev_c, c) THEN "rug"
    ELSE "none"

RECURSIVE TrailingLoop(_, _, _, _, _, _, _, _, _, _)
\* the loop of lines 35-60 from bar i on (i = 2 is the source's index 1), then
\* lines 63-64; the result also names the bar of the exit and the trail at it
TrailingLoop(gap_protect, rug_enabled, H, L, C, a, i, peak, trail, peak_run) ==
    IF i > Len(C)
    THEN [net |-> NetPct(C[Len(C)], C[1]), peak_run |-> peak_run, reason |-> "hold",
          bar |-> 0, trail |-> trail]
    ELSE LET peak1  == RatMax(peak, H[i])
             run1   == RatMax(peak_run, NetPct(peak1, C[1]))
             dyn    == RatMul(Rat(TRAIL_K, 10), a[i])
             cand   == RatSub(peak1, dyn)
             trail1 == IF RatLt(trail, cand) THEN cand ELSE trail
             d      == BarDecision(gap_protect, rug_enabled, H[i], L[i], C[i], C[i - 1],
                                   trail1)
         IN  IF d = "none"
             THEN TrailingLoop(gap_protect, rug_enabled, H, L, C, a, i + 1, peak1,
                               trail1, run1)
             ELSE [net |-> NetPct(IF d = "trail" THEN trail1 ELSE C[i], C[1]),
                   peak_run |-> run1, reason |-> d, bar |-> i, trail |-> trail1]

\* trailing_only_exits(prices), lines 22-64
TrailingOnlyExits(gap_protect, rug_enabled, H, L, C) ==
    IF C = <<>>
    THEN [net |-> Rat(0, 1), peak_run |-> Rat(0, 1), reason |-> "no_data", bar |-> 0,
          trail |-> Rat(0, 1)]
    ELSE TrailingLoop(gap_protect, rug_enabled, H, L, C, Atr(H, L, C, ATR_WINDOW), 2,
                      C[1], RatMul(C[1], Rat(100 - HARD_STOP_PCT, 100)), Rat(0, 1))

(***************************************************************************)
(* Initial state: the objects as app.boot constructs them.                 *)
(***************************************************************************)
\* everything but the two settings the specifications below choose differently
Boot ==
    /\ DRY_RUN \in BOOLEAN
    /\ PAPER_AUTOTRADE \in BOOLEAN
    /\ RUG_ENABLED \in BOOLEAN
    /\ ledgerHasMark \in BOOLEAN
    /\ positions = <<>>
    /\ balance = PAPER_START_BAL_USD
    /\ watch = <<>>
    /\ now = WATCH_QUOTE_INTERVAL_S
    /\ pc = "sleep"
    /\ posQ = <<>>
    /\ watchQ = <<>>
    /\ quote = NoQuote
    /\ ticked = {}
    /\ closedInTick = {}
    /\ preempts = 0
    /\ ev = [op |-> "init"]

NoOut == [fn |-> "none"]

\* no function of trailing.py has been called
NoCalc ==
    /\ bars = <<>>
    /\ windowArg = ATR_WINDOW
    /\ returned = NoOut

\* GAP_PROTECT at its default (config.py:44), one open slot, one watched token
Init ==
    /\ Boot
    /\ GAP_PROTECT = TRUE
    /\ MAX_OPEN_POSITIONS = 1
    /\ WATCHLIST_MAX = 1
    /\ NoCalc

(***************************************************************************)
(* The other tasks                                                         *)
(***************************************************************************)
\* the early returns of add_candidate without the capacity test of lines 23-24
DroppedUnlessFull(w, max, mint) == mint = "" \/ Has(w, mint)

\* the early returns of add_candidate, lines 19-24
Dropped(w, max, mint) == mint = "" \/ Has(w, mint) \/ Len(w) >= max

\* WatchManager.add_candidate(meta); mint "" is a meta without a token address
AddCandidate(mint, price) ==
    /\ preempts' = IF pc = "sleep" THEN preempts ELSE preempts + 1
    /\ LET dropped == Dropped(watch, WATCHLIST_MAX, mint)
       IN  /\ watch' = IF dropped THEN watch
                       ELSE Append(watch, CandidateEntry(mint, price))
           \* line 34 logs the price of a candidate that was added
           /\ ev' = [op |-> "add_candidate", mint |-> mint, added |-> ~dropped,
                     price |-> IF dropped THEN 0 ELSE price]
    /\ UNCHANGED <<cfgVars, positions, balance, now, pc, posQ, watchQ, quote,
                   ticked, closedInTick>>

\* run_radar's paper auto-trade, lines 107-129, for a mint that passed the gate
RadarBuy(mint, price) ==
    /\ preempts' = IF pc = "sleep" THEN preempts ELSE preempts + 1
    /\ DRY_RUN /\ PAPER_AUTOTRADE
    /\ FreeCapacityOk(positions, balance, MAX_OPEN_POSITIONS, PER_TRADE_USD_TARGET)
    /\ LET o == OpenPaper(positions, mint, PER_TRADE_USD_TARGET, price,
                           RADAR_FEE_PCT, RADAR_SLIP_PCT, "gate_ok+route_ok")
       IN  /\ positions' = o.positions
           /\ ev' = [op |-> "radar_buy", mint |-> mint, row |-> o.row]
    /\ ticked' = ticked \ {mint}
    /\ UNCHANGED <<cfgVars, balance, watch, now, pc, posQ, watchQ, quote, closedInTick>>

(***************************************************************************)
(* WatchManager.run                                                        *)
(***************************************************************************)
\* the sleep ends and a tick begins: lines 161, 137-147
TickBegin ==
    /\ pc = "sleep"
    /\ LET a == Advance(positions, watch, positions)
       IN  /\ pc' = a.pc /\ posQ' = a.posQ /\ watchQ' = a.watchQ /\ watch' = a.watch
    /\ now' = now + WATCH_TICK_SEC
    /\ closedInTick' = {}
    /\ ev' = [op |-> "tick"]
    /\ UNCHANGED <<cfgVars, preempts, positions, balance, quote, ticked>>

\* _tick_position from the fetch's result to its close, or to the route quote
TickPosition(fetched) ==
    /\ pc = "pos_fetch"
    /\ LET pos   == Head(posQ)
           mint  == pos.mint
           st    == Get(watch, mint)
           price == TickPrice(fetched, st, pos)
           prev  == IF st.prev_price # 0 THEN st.prev_price ELSE price
           st1   == Marked(st, price)
           d     == Decide(RUG_ENABLED, prev, price, st1.trail)
           px    == ExitPrice(d, price, st1.trail)
           c     == ClosePaper(positions, balance, mint, ExitUsd(pos, px), d)
           probe == d = "none" /\ ~Throttled(st1, now)
           st2   == IF probe THEN [st1 EXCEPT !.last_quote_ts = now] ELSE st1
       IN  IF ~ledgerHasMark
           THEN \* self.ledger.mark raises AttributeError: caught at line 159
                /\ watch' = Put(watch, [st EXCEPT !.last_price = price])
                /\ pc' = AfterLoopError /\ posQ' = <<>> /\ watchQ' = <<>>
                /\ ev' = [op |-> "loop_error", mint |-> mint,
                          skipped |-> (Range(MintsOf(Tail(posQ)))
                                       \cup (Keys(watch) \ Keys(positions)))]
                /\ UNCHANGED <<positions, balance, ticked, closedInTick>>
           ELSE /\ ticked' = ticked \cup {mint}
                /\ ev' = [op |-> "tick_position", mint |-> mint, fetched |-> fetched,
                          pos |-> pos, first |-> mint \notin ticked, before |-> st,
                          decision |-> d, row |-> IF d # "none" THEN c.row ELSE NoRow]
                /\ IF d # "none"
                   THEN /\ positions' = c.positions /\ balance' = c.balance
                        /\ closedInTick' = closedInTick \cup {mint}
                        /\ watch' = Put(watch, st1)
                        /\ pc' = AfterExit
                        /\ UNCHANGED <<posQ, watchQ>>
                   ELSE /\ UNCHANGED <<positions, balance, closedInTick>>
                        /\ IF probe
                           THEN /\ watch' = Put(watch, st2)
                                /\ pc' = "route_quote"
                                /\ UNCHANGED <<posQ, watchQ>>
                           ELSE LET a == Advance(Tail(posQ), Put(watch, st1), positions)
                                IN  /\ pc' = a.pc /\ posQ' = a.posQ /\ watchQ' = a.watchQ
                                    /\ watch' = a.watch
    /\ UNCHANGED <<cfgVars, preempts, now, quote>>

\* _route_health from its quote's result, then lines 128-132
RouteHealth(ok) ==
    /\ pc = "route_quote"
    /\ LET pos   == Head(posQ)
           mint  == pos.mint
           st    == Get(watch, mint)
           st1   == [st EXCEPT !.route_fail_streak = RouteStreak(@, ok)]
           fail  == ~RouteOk(st1.route_fail_streak)
           price == st.last_price
           c     == IF fail
                    THEN ClosePaper(positions, balance, mint, ExitUsd(pos, price),
                                    "route_fail")
                    ELSE [positions |-> positions, balance |-> balance, row |-> NoRow]
           a     == Advance(Tail(posQ), Put(watch, st1), c.positions)
       IN  /\ positions' = c.positions /\ balance' = c.balance
           /\ closedInTick' = IF fail THEN closedInTick \cup {mint} ELSE closedInTick
           /\ IF fail
              THEN /\ watch' = Put(watch, st1)
                   /\ pc' = "notify"
                   /\ UNCHANGED <<posQ, watchQ>>
              ELSE /\ pc' = a.pc /\ posQ' = a.posQ /\ watchQ' = a.watchQ
                   /\ watch' = a.watch
           /\ ev' = [op |-> "route_health", mint |-> mint, ok |-> ok, pos |-> pos,
                     before |-> st, decision |-> IF fail THEN "route_fail" ELSE "none",
                     row |-> c.row]
    /\ UNCHANGED <<cfgVars, preempts, now, quote, ticked>>

\* the watch pass for one candidate, lines 154-157, to the chase quote (line 51)
TickCandidate(fetched) ==
    /\ pc = "watch_fetch"
    /\ LET mint  == Head(watchQ)
           st    == Get(watch, mint)
           price == IF fetched # 0 THEN fetched
                    ELSE IF st.last_price # 0 THEN st.last_price
                    ELSE st.base_price
           st1   == [st EXCEPT !.last_price = price]
           cap   == FreeCapacityOk(positions, balance, MAX_OPEN_POSITIONS,
                                   PER_TRADE_USD_TARGET)
           want  == ChaseWanted(DRY_RUN, PAPER_AUTOTRADE, cap, st1)
           a     == WatchPass(Tail(watchQ), Put(watch, st1), positions)
       IN  /\ watch' = Put(watch, st1)
           /\ IF want
              THEN pc' = "chase_quote" /\ UNCHANGED <<posQ, watchQ>>
              ELSE pc' = a.pc /\ posQ' = a.posQ /\ watchQ' = a.watchQ
           /\ ev' = [op |-> "tick_candidate", mint |-> mint, fetched |-> fetched]
    /\ UNCHANGED <<cfgVars, preempts, positions, balance, now, quote, ticked, closedInTick>>

\* _maybe_chase_entry from its quote's result, lines 52-60
ChaseQuote(q) ==
    /\ pc = "chase_quote"
    /\ LET a == WatchPass(Tail(watchQ), watch, positions)
       IN  IF QuoteAccepted(q)
           THEN pc' = "chase_meta" /\ quote' = q /\ UNCHANGED <<posQ, watchQ>>
           ELSE pc' = a.pc /\ posQ' = a.posQ /\ watchQ' = a.watchQ /\ quote' = NoQuote
    /\ ev' = [op |-> "chase_quote", mint |-> Head(watchQ), ok |-> q.ok, quote |-> q]
    /\ UNCHANGED <<cfgVars, preempts, positions, balance, watch, now, ticked, closedInTick>>

\* _maybe_chase_entry after its second fetch: open_paper and the notification
ChaseOpen ==
    /\ pc = "chase_meta"
    /\ LET mint == Head(watchQ)
           o    == OpenPaper(positions, mint, PER_TRADE_USD_TARGET, quote.price,
                             quote.fee_pct, quote.slip_pct, "watch_chase")
       IN  /\ positions' = o.positions
           /\ ticked' = ticked \ {mint}
           /\ pc' = "notify"
           /\ ev' = [op |-> "chase_open", mint |-> mint, row |-> o.row, quote |-> quote]
    /\ quote' = NoQuote
    /\ UNCHANGED <<cfgVars, preempts, balance, watch, now, posQ, watchQ, closedInTick>>

\* the notification after a close (lines 109, 116, 123, 132) or an open (line 63)
\* has returned: the loop goes on to the next item of its pass
Notify(sent) ==
    /\ pc = "notify"
    /\ LET inPos == posQ # <<>>
           mint  == IF inPos THEN Head(posQ).mint ELSE Head(watchQ)
           a     == IF inPos THEN Advance(Tail(posQ), watch, positions)
                    ELSE WatchPass(Tail(watchQ), watch, positions)
       IN  IF SafeSend(sent) = "raise"
           THEN /\ pc' = AfterLoopError /\ posQ' = <<>> /\ watchQ' = <<>>
                /\ watch' = watch
                /\ ev' = [op |-> "loop_error", mint |-> mint,
                          skipped |-> IF inPos
                                      THEN Range(MintsOf(Tail(posQ)))
                                           \cup (Keys(watch) \ Keys(positions))
                                      ELSE Range(Tail(watchQ)) \ Keys(positions)]
           ELSE /\ pc' = a.pc /\ posQ' = a.posQ /\ watchQ' = a.watchQ
                /\ watch' = a.watch
                /\ ev' = [op |-> "notify", mint |-> mint, sent |-> sent,
                          pass |-> IF inPos THEN "positions" ELSE "watch"]
    /\ UNCHANGED <<cfgVars, preempts, positions, balance, now, quote, ticked, closedInTick>>

Next ==
    \/ \E m \in Mints \cup {""}, p \in Fetches : Idle /\ AddCandidate(m, p)
    \/ \E m \in Mints, p \in Prices : Idle /\ RadarBuy(m, p)
    \/ Idle /\ TickBegin
    \/ \E f \in Fetches : TickPosition(f)
    \/ \E ok \in BOOLEAN : RouteHealth(ok)
    \/ \E f \in Fetches : TickCandidate(f)
    \/ \E q \in Quotes : ChaseQuote(q)
    \/ ChaseOpen
    \/ \E sent \in BOOLEAN : Notify(sent)

Spec == Init /\ [][Next]_vars

(***************************************************************************)
(* One token followed over more ticks, on a finer grid of prices: the      *)
(* prices of the scenarios (entry 1.00; 0.60; 1.03; 1.05, 1.10, 1.30) and  *)
(* the price exactly WATCH_ENTRY_ACCEL_PCT above 1.00.  Automation is      *)
(* enabled.                                                                *)
(***************************************************************************)
MaxPathTicks == 3

PathMint == "m1"

PathPrices == {600, 1000, 1025, 1030, 1050, 1100, 1300}

PathFetches == PathPrices \cup {0}

\* prices of the radar's buys and of the candidates add_candidate is given
PathEntryPrices == {1000}

PathQuotes ==
    {NoQuote}
    \cup {[ok |-> TRUE, price |-> p, fee_pct |-> 1, slip_pct |-> 1] : p \in {1000, 1030}}
    \cup {[ok |-> TRUE, price |-> 1030, fee_pct |-> FEE_CAP_PCT + 1, slip_pct |-> 1],
          [ok |-> TRUE, price |-> 1030, fee_pct |-> 1, slip_pct |-> MAX_SLIPPAGE_PCT + 1]}

IdlePath == pc = "sleep" /\ now < WATCH_QUOTE_INTERVAL_S + MaxPathTicks

InitPath ==
    /\ Init
    /\ DRY_RUN /\ PAPER_AUTOTRADE

NextPath ==
    \/ \E p \in PathEntryPrices : IdlePath /\ AddCandidate(PathMint, p)
    \/ \E p \in PathEntryPrices : IdlePath /\ RadarBuy(PathMint, p)
    \/ IdlePath /\ TickBegin
    \/ \E f \in PathFetches : TickPosition(f)
    \/ \E ok \in BOOLEAN : RouteHealth(ok)
    \/ \E f \in PathFetches : TickCandidate(f)
    \/ \E q \in PathQuotes : ChaseQuote(q)
    \/ ChaseOpen
    \/ \E sent \in BOOLEAN : Notify(sent)

SpecPath == InitPath /\ [][NextPath]_vars

(***************************************************************************)
(* One token followed over enough ticks for two route probes and a         *)
(* re-entry after them: the ticks are WATCH_TICK_SEC apart and a probe is  *)
(* due every WATCH_QUOTE_INTERVAL_S.  Automation is enabled.               *)
(***************************************************************************)
MaxRouteTicks == 5

\* the prices of Spec: they reach every kind of exit
RoutePrices == Prices

RouteFetches == RoutePrices \cup {0}

RouteQuotes == {NoQuote, [ok |-> TRUE, price |-> 1000, fee_pct |-> 1, slip_pct |-> 1]}

IdleRoute == pc = "sleep" /\ now < WATCH_QUOTE_INTERVAL_S + MaxRouteTicks

NextRoute ==
    \/ \E p \in PathEntryPrices : IdleRoute /\ AddCandidate(PathMint, p)
    \/ \E p \in PathEntryPrices : IdleRoute /\ RadarBuy(PathMint, p)
    \/ IdleRoute /\ TickBegin
    \/ \E f \in RouteFetches : TickPosition(f)
    \/ \E ok \in BOOLEAN : RouteHealth(ok)
    \/ \E f \in RouteFetches : TickCandidate(f)
    \/ \E q \in RouteQuotes : ChaseQuote(q)
    \/ ChaseOpen
    \/ \E sent \in BOOLEAN : Notify(sent)

SpecRoute == InitPath /\ [][NextRoute]_vars

(***************************************************************************)
(* TradeLedger.close_paper applied to any mint, held or not.  The watch    *)
(* loop is the only caller of close_paper in the repository and it closes  *)
(* positions it has just read from the Ledger; this action is a caller     *)
(* outside the loop, which runs while the loop sleeps; it closes at the    *)
(* per-trade notional, so that opening and closing again and again leaves  *)
(* the balance where it was.                                               *)
(***************************************************************************)
CloseNotionals == {PER_TRADE_USD_TARGET}

ClosePaperCall(mint, exit_usd) ==
    /\ preempts' = IF pc = "sleep" THEN preempts ELSE preempts + 1
    /\ LET c == ClosePaper(positions, balance, mint, exit_usd, "manual")
       IN  /\ positions' = c.positions
           /\ balance' = c.balance
           /\ ev' = [op |-> "close_paper", mint |-> mint, held |-> Has(positions, mint),
                     row |-> c.row]
    /\ UNCHANGED <<cfgVars, watch, now, pc, posQ, watchQ, quote, ticked, closedInTick>>

NextLedger ==
    \/ NextRoute
    \/ \E m \in Mints, x \in CloseNotionals : IdleRoute /\ ClosePaperCall(m, x)

SpecLedger == InitPath /\ [][NextLedger]_vars

(***************************************************************************)
(* One token followed under every setting of the two protection flags of   *)
(* config.py:44-46, GAP_PROTECT and RUG_ENABLED.  Automation is enabled.   *)
(***************************************************************************)
MaxFlagTicks == 3

IdleFlags == pc = "sleep" /\ now < WATCH_QUOTE_INTERVAL_S + MaxFlagTicks

InitFlags ==
    /\ Boot
    /\ GAP_PROTECT \in BOOLEAN
    /\ MAX_OPEN_POSITIONS = 1
    /\ WATCHLIST_MAX = 1
    /\ DRY_RUN /\ PAPER_AUTOTRADE
    /\ NoCalc

NextFlags ==
    \/ \E p \in PathEntryPrices : IdleFlags /\ AddCandidate(PathMint, p)
    \/ \E p \in PathEntryPrices : IdleFlags /\ RadarBuy(PathMint, p)
    \/ IdleFlags /\ TickBegin
    \/ \E f \in RouteFetches : TickPosition(f)
    \/ \E ok \in BOOLEAN : RouteHealth(ok)
    \/ \E f \in RouteFetches : TickCandidate(f)
    \/ \E q \in RouteQuotes : ChaseQuote(q)
    \/ ChaseOpen
    \/ \E sent \in BOOLEAN : Notify(sent)

SpecFlags == InitFlags /\ [][NextFlags]_vars

(***************************************************************************)
(* The radar and add_candidate interleaved with the tick loop: they run    *)
(* while the loop sleeps and also at each of its suspension points (the    *)
(* price fetches, the quotes, the notifications).  The radar's capacity    *)
(* test and open_paper (radar.py:107-129) have no await between them and   *)
(* are one step.  Two tokens, one or two open slots, a watch set of two.    *)
(* Automation is enabled.  The radar alerts a token again only after its   *)
(* cooldown (radar.py:62, 81-84), which is many ticks: a second buy of a   *)
(* token in this specification stands for a buy made that much later.      *)
(***************************************************************************)
MaxRaceTicks == 2

MaxPreempts == 1

RaceSlots == {1, 2}

RaceWatchlist == 2

RaceEntryPrices == {1000, 2075}

RaceFetches == RaceEntryPrices \cup {0}

IdleRace == pc = "sleep" /\ now < WATCH_QUOTE_INTERVAL_S + MaxRaceTicks

\* the loop is suspended inside a tick and another task is scheduled
Preempt == pc # "sleep" /\ preempts < MaxPreempts

InitRace ==
    /\ Boot
    /\ GAP_PROTECT = TRUE
    /\ MAX_OPEN_POSITIONS \in RaceSlots
    /\ WATCHLIST_MAX = RaceWatchlist
    /\ DRY_RUN /\ PAPER_AUTOTRADE
    /\ NoCalc

NextRace ==
    \/ \E m \in Mints, p \in PathEntryPrices : (IdleRace \/ Preempt) /\ AddCandidate(m, p)
    \/ \E m \in Mints, p \in RaceEntryPrices : (IdleRace \/ Preempt) /\ RadarBuy(m, p)
    \/ IdleRace /\ TickBegin
    \/ \E f \in RaceFetches : TickPosition(f)
    \/ \E ok \in BOOLEAN : RouteHealth(ok)
    \/ \E f \in RaceFetches : TickCandidate(f)
    \/ \E q \in RouteQuotes : ChaseQuote(q)
    \/ ChaseOpen
    \/ \E sent \in BOOLEAN : Notify(sent)

SpecRace == InitRace /\ [][NextRace]_vars

(***************************************************************************)
(* The tick loop with its scheduling: asyncio.sleep (watch.py:161) returns *)
(* after the delay and the loop begins its next tick, so the step that     *)
(* begins a tick is taken when it stays enabled.  Nothing is assumed of    *)
(* the fetches and the quotes, which answer or do not.                     *)
(***************************************************************************)
SpecLive == InitFlags /\ [][NextFlags]_vars /\ WF_vars(IdleFlags /\ TickBegin)

(***************************************************************************)
(* The functions of trailing.py called on every series of at most MaxBars  *)
(* bars.  A bar is (high, low, close) with low <= close <= high, on a grid *)
(* of three prices; one bar has its high under its low.  The watch loop    *)
(* does not run.                                                           *)
(***************************************************************************)
MaxBars == 3

BarValues == {1, 2, 4}

Bars ==
    {b \in [high : BarValues, low : BarValues, close : BarValues] :
        b.low <= b.close /\ b.close <= b.high}
    \cup {[high |-> 1, low |-> 2, close |-> 1]}

BarSeqs == UNION {[1..n -> Bars] : n \in 0..MaxBars}

\* spans and windows: the smallest ones and the configured one
Windows == {1, 2, ATR_WINDOW}

Column(name) == [i \in 1..Len(bars) |-> Rat(bars[i][name], 1)]

InitTrailing ==
    /\ Boot
    /\ DRY_RUN /\ PAPER_AUTOTRADE /\ RUG_ENABLED /\ ~ledgerHasMark
    /\ GAP_PROTECT = TRUE
    /\ MAX_OPEN_POSITIONS = 1
    /\ WATCHLIST_MAX = 1
    /\ bars \in BarSeqs
    /\ windowArg \in Windows
    /\ returned = NoOut

\* ema(values, span) on one column of the bars
EmaCall(name) ==
    /\ returned' = [fn |-> "ema", values |-> Column(name), span |-> windowArg,
                    out |-> Ema(Column(name), windowArg)]
    /\ UNCHANGED <<DRY_RUN, PAPER_AUTOTRADE, RUG_ENABLED, GAP_PROTECT, MAX_OPEN_POSITIONS,
                   WATCHLIST_MAX, ledgerHasMark, loopVars, bars, windowArg>>

\* atr(high, low, close, window) on the bars
AtrCall ==
    /\ returned' = [fn |-> "atr", window |-> windowArg,
                    trs |-> TrueRanges(Column("high"), Column("low"), Column("close")),
                    out |-> Atr(Column("high"), Column("low"), Column("close"),
                                windowArg)]
    /\ UNCHANGED <<DRY_RUN, PAPER_AUTOTRADE, RUG_ENABLED, GAP_PROTECT, MAX_OPEN_POSITIONS,
                   WATCHLIST_MAX, ledgerHasMark, loopVars, bars, windowArg>>

\* trailing_only_exits(prices) on the bars; it reads the window from the configuration
TrailingOnlyExitsCall ==
    /\ windowArg = ATR_WINDOW
    /\ returned' = [fn |-> "trailing_only_exits",
                    out |-> TrailingOnlyExits(GAP_PROTECT, RUG_ENABLED, Column("high"),
                                              Column("low"), Column("close"))]
    /\ UNCHANGED <<DRY_RUN, PAPER_AUTOTRADE, RUG_ENABLED, GAP_PROTECT, MAX_OPEN_POSITIONS,
                   WATCHLIST_MAX, ledgerHasMark, loopVars, bars, windowArg>>

NextTrailing ==
    \/ \E name \in {"high", "low", "close"} : EmaCall(name)
    \/ AtrCall
    \/ TrailingOnlyExitsCall

SpecTrailing == InitTrailing /\ [][NextTrailing]_vars

(***************************************************************************)
(* Two tokens and two open slots, with the scheduling of SpecLive and      *)
(* every await answered: the fetches and the quotes have a timeout         *)
(* (marketdata.py:11, photon.py:23) and the notification returns, sent or  *)
(* failed.  The market of one token has crashed for good: every fetch for  *)
(* a position in it returns a price under every exit level of a position   *)
(* entered at a price the radar or the chase can give, so its exit         *)
(* condition holds on every tick.  The other token trades at any price.    *)
(* The other tasks run while the loop sleeps.  Automation is enabled.      *)
(***************************************************************************)
MaxStarveTicks == 2

StarvedMint == "m2"

CrashFetches == {600}

IdleStarve == pc = "sleep" /\ now < WATCH_QUOTE_INTERVAL_S + MaxStarveTicks

InitStarve ==
    /\ Boot
    /\ GAP_PROTECT = TRUE
    /\ MAX_OPEN_POSITIONS = 2
    /\ WATCHLIST_MAX = RaceWatchlist
    /\ DRY_RUN /\ PAPER_AUTOTRADE
    /\ NoCalc

\* the position being ticked is in the crashed token
TicksStarved == pc = "pos_fetch" /\ Head(posQ).mint = StarvedMint

TickPositions ==
    \/ \E f \in CrashFetches : TicksStarved /\ TickPosition(f)
    \/ \E f \in RaceFetches : ~TicksStarved /\ TickPosition(f)

NextStarve ==
    \/ \E m \in Mints, p \in PathEntryPrices : IdleStarve /\ AddCandidate(m, p)
    \/ \E m \in Mints, p \in PathEntryPrices : IdleStarve /\ RadarBuy(m, p)
    \/ IdleStarve /\ TickBegin
    \/ TickPositions
    \/ \E ok \in BOOLEAN : RouteHealth(ok)
    \/ \E f \in RaceFetches : TickCandidate(f)
    \/ \E q \in RouteQuotes : ChaseQuote(q)
    \/ ChaseOpen
    \/ \E sent \in BOOLEAN : Notify(sent)

SpecStarve ==
    /\ InitStarve
    /\ [][NextStarve]_vars
    /\ WF_vars(IdleStarve /\ TickBegin)
    /\ WF_vars(TickPositions)
    /\ WF_vars(\E ok \in BOOLEAN : RouteHealth(ok))
    /\ WF_vars(\E f \in RaceFetches : TickCandidate(f))
    /\ WF_vars(\E q \in RouteQuotes : ChaseQuote(q))
    /\ WF_vars(ChaseOpen)
    /\ WF_vars(\E sent \in BOOLEAN : Notify(sent))

(***************************************************************************)
(* The TradeLedger alone, called in any order by its callers: open_paper,  *)
(* close_paper and free_capacity_ok on two tokens, with one or two open    *)
(* slots.  The balance starts at PAPER_START_BAL_USD, or at 0 when         *)
(* PAPER_MODE_BAL_ENABLED is off (ledger.py:12).  Closes are at a loss, at *)
(* par and at a gain; the balance is followed as far as MaxDrift from its  *)
(* two starting values.  The watch loop does not run.                      *)
(***************************************************************************)
MaxDrift == 1000

\* entry notionals: the per-trade target and twice that (radar.py:110, meta["q_usd"])
BookEntries == {PER_TRADE_USD_TARGET, 2 * PER_TRADE_USD_TARGET}

BookExits == {PER_TRADE_USD_TARGET \div 2, PER_TRADE_USD_TARGET, 2 * PER_TRADE_USD_TARGET}

\* the amounts free_capacity_ok is asked about: under the minimum, the minimum, the
\* target, and amounts the exposure cap refuses
BookAsks == {PER_TRADE_USD_MIN - 1, PER_TRADE_USD_MIN} \cup BookEntries
            \cup {3 * PER_TRADE_USD_TARGET}

InitBook ==
    /\ DRY_RUN = TRUE
    /\ PAPER_AUTOTRADE = TRUE
    /\ RUG_ENABLED = TRUE
    /\ ledgerHasMark = FALSE
    /\ GAP_PROTECT = TRUE
    /\ MAX_OPEN_POSITIONS \in RaceSlots
    /\ WATCHLIST_MAX = 1
    /\ positions = <<>>
    /\ balance \in {PAPER_START_BAL_USD, 0}
    /\ watch = <<>>
    /\ now = WATCH_QUOTE_INTERVAL_S
    /\ pc = "sleep"
    /\ posQ = <<>>
    /\ watchQ = <<>>
    /\ quote = NoQuote
    /\ ticked = {}
    /\ closedInTick = {}
    /\ preempts = 0
    /\ ev = [op |-> "init"]
    /\ NoCalc

\* TradeLedger.open_paper(token, symbol, mint, entry_usd, price, ...)
OpenPaperCall(mint, entry_usd, price) ==
    /\ LET o == OpenPaper(positions, mint, entry_usd, price, RADAR_FEE_PCT,
                           RADAR_SLIP_PCT, "gate_ok+route_ok")
       IN  /\ positions' = o.positions
           /\ ev' = [op |-> "open_paper", mint |-> mint, held |-> Has(positions, mint),
                     row |-> o.row]
    /\ UNCHANGED <<cfgVars, balance, watch, now, pc, posQ, watchQ, quote, ticked,
                   closedInTick, preempts>>

\* TradeLedger.free_capacity_ok(next_entry_usd)
FreeCapacityOkCall(next_entry_usd) ==
    /\ ev' = [op |-> "free_capacity_ok", next |-> next_entry_usd,
              ok |-> FreeCapacityOk(positions, balance, MAX_OPEN_POSITIONS,
                                    next_entry_usd)]
    /\ UNCHANGED <<cfgVars, positions, balance, watch, now, pc, posQ, watchQ, quote,
                   ticked, closedInTick, preempts>>

\* the balance stays within MaxDrift of its starting values
InDrift(bal) == bal >= 0 - MaxDrift /\ bal <= PAPER_START_BAL_USD + MaxDrift

NextBook ==
    \/ \E m \in Mints, u \in BookEntries, p \in RaceEntryPrices : OpenPaperCall(m, u, p)
    \/ \E m \in Mints, x \in BookExits : ClosePaperCall(m, x) /\ InDrift(balance')
    \/ \E u \in BookAsks : FreeCapacityOkCall(u)

SpecBook == InitBook /\ [][NextBook]_vars

(***************************************************************************)
(* The last step, read from ev and the state after it.                     *)
(***************************************************************************)
\* the last step was _tick_position past the mark (lines 89-127)
EvTick == ev.op = "tick_position"

\* the last step was a position step that decided an exit
EvExit == ev.op \in {"tick_position", "route_health"} /\ ev.decision # "none"

\* the entry of the last step's mint, after the step
EvAfter == Get(watch, ev.mint)

\* the price the last position tick used
EvPrice == EvAfter.last_price

\* `prev` of the last position tick (line 90)
EvPrev == IF ev.before.prev_price # 0 THEN ev.before.prev_price ELSE EvPrice

Automation == DRY_RUN /\ PAPER_AUTOTRADE

Capacity == FreeCapacityOk(positions, balance, MAX_OPEN_POSITIONS, PER_TRADE_USD_TARGET)

\* the candidate's move since it was added is at or over the chase threshold
Accelerated(st) ==
    /\ st.base_price > 0
    /\ (st.last_price - st.base_price) * 1000 >= WATCH_ENTRY_ACCEL_PCT * st.base_price

(***************************************************************************)
(* C1. Ratchet: over every step, the trailLevel of every token that holds  *)
(* an open position and a watch entry does not decrease, whatever the      *)
(* fetch returned (a price or nothing).                                    *)
(***************************************************************************)
C1_Ratchet ==
    [][\A m \in Mints :
          (Has(positions, m) /\ Has(watch, m))
          => (Has(watch', m) /\ Get(watch', m).trail >= Get(watch, m).trail)]_vars

\* a position tick raised the trail above its previous value and kept the position
C1_Witness ==
    /\ EvTick
    /\ ev.decision = "none"
    /\ Has(positions, ev.mint)
    /\ EvAfter.trail > ev.before.trail

(***************************************************************************)
(* C2. Gap priority: when a position tick closes a position while both the *)
(* gap condition and the trail condition hold, the reason given to the     *)
(* Ledger close is gap, under every setting of the flags.                  *)
(***************************************************************************)
C2_GapPriority ==
    (/\ EvTick
     /\ ev.row # NoRow
     /\ GapCond(EvPrice, EvAfter.trail)
     /\ TrailCond(EvPrice, EvAfter.trail))
    => ev.row.exit_reason = "gap"

C4_NoExitAndChaseInOneTick ==
    ev.op = "chase_open" => ev.mint \notin closedInTick

(***************************************************************************)
(* C5. A failure while one token is processed does not abort the tick:     *)
(* when a tick ends in the loop's exception handler, no open position and  *)
(* no watched candidate of that tick is left unevaluated.                  *)
(***************************************************************************)
C5_TickNotAborted ==
    ev.op = "loop_error" => ev.skipped = {}

(***************************************************************************)
(* C6. The watch set never holds more than WATCHLIST_MAX entries.          *)
(***************************************************************************)
C6_WatchBounded == Len(watch) <= WATCHLIST_MAX

(***************************************************************************)
(* C7. After an exit decision for a token its position is closed and its   *)
(* WatchEntry is removed from the watch set.                               *)
(***************************************************************************)
C7_RemovedOnExit ==
    EvExit => (~Has(positions, ev.mint) /\ ~Has(watch, ev.mint))

(***************************************************************************)
(* C8. On a position tick whose fetch returned nothing the token is        *)
(* skipped: no exit is decided, nothing is closed, and volatilityEstimate, *)
(* peakPrice, trailLevel and prevPrice keep their values.                  *)
(***************************************************************************)
C8_SkippedWhenUnavailable ==
    (EvTick /\ ev.fetched = 0)
    => (/\ ev.decision = "none"
        /\ ev.row = NoRow
        /\ EvAfter.vol_ema = ev.before.vol_ema
        /\ EvAfter.peak = ev.before.peak
        /\ EvAfter.trail = ev.before.trail
        /\ EvAfter.prev_price = ev.before.prev_price)

(***************************************************************************)
(* C9. When a position is evaluated for the first time since it was        *)
(* opened, the trailLevel it starts from is entryPrice x (1 - hard stop).  *)
(***************************************************************************)
C9_InitialTrail ==
    (EvTick /\ ev.first) => ev.before.trail = HardStop(ev.pos.entry_price)

(***************************************************************************)
(* C10. Chase gating: an evaluation of a watched candidate made while the  *)
(* Ledger has no free capacity for the per-trade notional, or while        *)
(* automation is disabled, requests no quote and opens nothing.            *)
(***************************************************************************)
C10_ChaseGating ==
    [][(pc = "watch_fetch" /\ ev'.op = "tick_candidate" /\ ~(Automation /\ Capacity))
       => (/\ pc' \notin {"chase_quote", "chase_meta"}
           /\ positions' = positions
           /\ balance' = balance)]_vars

\* a candidate over the chase threshold was evaluated with automation enabled and
\* no free capacity, and nothing was requested
C10_Witness ==
    /\ ev.op = "tick_candidate"
    /\ Automation
    /\ ~Capacity
    /\ Accelerated(EvAfter)
    /\ pc # "chase_quote"

(***************************************************************************)
(* C11. Chase decision: with automation enabled and free capacity, the     *)
(* evaluation of a watched candidate requests the quote if and only if the *)
(* move since basePrice is at or over WATCH_ENTRY_ACCEL_PCT, goes on to    *)
(* open if and only if the quote is ok with fee and slippage within their  *)
(* caps, and the position it opens carries the quoted price, fee and       *)
(* slippage and the per-trade notional.                                    *)
(***************************************************************************)
C11_ChaseDecision ==
    /\ (ev.op = "tick_candidate" /\ Automation /\ Capacity)
       => (pc = "chase_quote"
           <=> (/\ EvAfter.base_price > 0
                /\ EvAfter.last_price > 0
                /\ (EvAfter.last_price - EvAfter.base_price) * 1000
                   >= WATCH_ENTRY_ACCEL_PCT * EvAfter.base_price))
    /\ ev.op = "chase_quote"
       => (pc = "chase_meta"
           <=> (/\ ev.quote.ok
                /\ ev.quote.fee_pct <= FEE_CAP_PCT
                /\ ev.quote.slip_pct <= MAX_SLIPPAGE_PCT))
    /\ pc = "chase_meta" => ev.op = "chase_quote"
    /\ ev.op = "chase_open"
       => (/\ Has(positions, ev.mint)
           /\ Get(positions, ev.mint).entry_price = ev.quote.price
           /\ Get(positions, ev.mint).fee_pct = ev.quote.fee_pct
           /\ Get(positions, ev.mint).slip_pct = ev.quote.slip_pct
           /\ Get(positions, ev.mint).entry_usd = PER_TRADE_USD_TARGET
           /\ ev.row.side = "BUY")

\* scenario C: a candidate added at 1.00 and last seen at 1.03 was opened at the
\* quoted price 1.03, fee 1%, slippage 1%
C11_Witness ==
    /\ ev.op = "chase_open"
    /\ EvAfter.base_price = 1000
    /\ EvAfter.last_price = 1030
    /\ ev.quote = [ok |-> TRUE, price |-> 1030, fee_pct |-> 1, slip_pct |-> 1]
    /\ Get(positions, ev.mint).entry_price = 1030

C13_RouteFailThreshold ==
    ev.op = "route_health"
    => (/\ ev.decision = "route_fail"
           <=> (~ev.ok /\ ev.before.route_fail_streak + 1 >= WATCH_ROUTE_FAILS_EXIT)
        /\ ev.decision = "route_fail"
           => (/\ ev.row.exit_reason = "route_fail"
               /\ ev.row.mint = ev.mint
               /\ ~Has(positions, ev.mint)))

\* scenario D: the second failed probe in a row closed the position, the first had not
C13_Witness ==
    /\ ev.op = "route_health"
    /\ ~ev.ok
    /\ ev.before.route_fail_streak = 1
    /\ WATCH_ROUTE_FAILS_EXIT = 2
    /\ ev.decision = "route_fail"
    /\ ev.row.exit_reason = "route_fail"

(***************************************************************************)
(* C14. Standing route-fail condition: a position tick that reaches the    *)
(* route-health step (no gap, rug or trail exit) with routeFailStreak at   *)
(* or over WATCH_ROUTE_FAILS_EXIT does not pass without a probe: either    *)
(* the route_fail exit is decided or a probe is issued whose success       *)
(* resets the streak.                                                      *)
(***************************************************************************)
C14_StandingRouteFail ==
    (/\ EvTick
     /\ ev.decision = "none"
     /\ ev.before.route_fail_streak >= WATCH_ROUTE_FAILS_EXIT)
    => (pc = "route_quote" \/ ~Has(positions, ev.mint))

(***************************************************************************)
(* C15. Route streak update: a route probe sets routeFailStreak to         *)
(* streak + 1 when its quote fails and to 0 when it succeeds; no other     *)
(* step changes the routeFailStreak of an entry; an entry starts at 0.     *)
(* The streak is therefore the number of failed probes of the token since  *)
(* its last successful one.                                                *)
(***************************************************************************)
C15_RouteStreak ==
    [][\A m \in Mints :
          /\ Has(watch, m)
             => (/\ Has(watch', m)
                 /\ Get(watch', m).route_fail_streak
                      = IF ev'.op = "route_health" /\ ev'.mint = m
                        THEN IF ev'.ok THEN 0 ELSE Get(watch, m).route_fail_streak + 1
                        ELSE Get(watch, m).route_fail_streak)
          /\ (~Has(watch, m) /\ Has(watch', m))
             => Get(watch', m).route_fail_streak = 0]_vars

\* a successful probe reset a streak of one failed probe
C15_Witness ==
    /\ ev.op = "route_health"
    /\ ev.ok
    /\ ev.before.route_fail_streak = 1
    /\ EvAfter.route_fail_streak = 0
    /\ Has(positions, ev.mint)

(***************************************************************************)
(* C16. Route probe throttle: a probe of a token is issued only when at    *)
(* least WATCH_QUOTE_INTERVAL_S have passed since the token's previous     *)
(* probe, and it records its time; a position tick inside the interval     *)
(* requests no quote and leaves routeFailStreak and lastQuoteCheckTime     *)
(* unchanged.                                                              *)
(***************************************************************************)
C16_ProbeThrottle ==
    [][ev'.op = "tick_position"
       => LET before == Get(watch, ev'.mint)
              after  == Get(watch', ev'.mint)
          IN  /\ pc' = "route_quote"
                 => (/\ now - before.last_quote_ts >= WATCH_QUOTE_INTERVAL_S
                     /\ after.last_quote_ts = now)
              /\ now - before.last_quote_ts < WATCH_QUOTE_INTERVAL_S
                 => (/\ pc' # "route_quote"
                     /\ after.last_quote_ts = before.last_quote_ts
                     /\ after.route_fail_streak = before.route_fail_streak)]_vars

\* a position tick that decided no exit fell inside the interval after a probe
C16_Witness ==
    /\ EvTick
    /\ ev.decision = "none"
    /\ Has(positions, ev.mint)
    /\ ev.before.last_quote_ts > 0
    /\ now - ev.before.last_quote_ts < WATCH_QUOTE_INTERVAL_S
    /\ pc # "route_quote"

(***************************************************************************)
(* C17. Exit price and notional: a trail exit is marked at trailLevel, a   *)
(* gap, rug or route_fail exit at the tick price; the exit notional given  *)
(* to the Ledger close is entryNotional x (exitPrice / entryPrice) of the  *)
(* position being closed.                                                  *)
(***************************************************************************)
C17_ExitNotional ==
    (EvExit /\ ev.row # NoRow)
    => LET px == IF ev.decision = "trail" THEN EvAfter.trail ELSE EvPrice
       IN  /\ ev.row.exit_reason = ev.decision
           /\ ev.row.mint = ev.pos.mint
           /\ ev.row.entry_usd = ev.pos.entry_usd
           /\ ev.row.exit_usd = (ev.pos.entry_usd * px) \div ev.pos.entry_price

\* a trail exit below the trail: the exit is marked above the market price
C17_Witness ==
    /\ EvTick
    /\ ev.decision = "trail"
    /\ EvPrice < EvAfter.trail
    /\ ev.row.exit_usd = (ev.pos.entry_usd * EvAfter.trail) \div ev.pos.entry_price
    /\ ev.row.exit_usd > (ev.pos.entry_usd * EvPrice) \div ev.pos.entry_price

(***************************************************************************)
(* C18. Idempotent close: the Ledger close of a token that holds no open   *)
(* position changes neither the position map nor the balance and writes    *)
(* no trade record; and every exit the watch loop decides (and notifies)   *)
(* closes exactly one position that was open, so no position is notified   *)
(* as closed twice.                                                        *)
(***************************************************************************)
C18_IdempotentClose ==
    [][/\ (ev'.op = "close_paper" /\ ~Has(positions, ev'.mint))
          => (/\ positions' = positions
              /\ balance' = balance
              /\ ev'.row = NoRow)
       /\ (ev'.op \in {"tick_position", "route_health"} /\ ev'.decision # "none")
          => (/\ Has(positions, ev'.mint)
              /\ ~Has(positions', ev'.mint)
              /\ Len(positions') = Len(positions) - 1
              /\ ev'.row.side = "SELL"
              /\ ev'.row.mint = ev'.mint)]_vars

\* a position the watch loop had closed at a loss was closed again from outside
C18_Witness ==
    /\ ev.op = "close_paper"
    /\ ~ev.held
    /\ Has(watch, ev.mint)
    /\ balance # PAPER_START_BAL_USD
    /\ ev.row = NoRow

(***************************************************************************)
(* C19. Scenario B: a position entered at 1.00, tracked from its entry     *)
(* price, whose first tick sees 0.60, with gap and rug protection enabled  *)
(* (RUG_DROP_PCT 35, GAP_PCT 8, HARD_STOP_PCT 20): the tick decides the    *)
(* rug exit at 0.60, reason rug, exit notional 0.60 x entry notional.      *)
(***************************************************************************)
C19_ScenarioB ==
    (/\ RUG_ENABLED
     /\ ev.op \in {"tick_position", "loop_error"}
     /\ LET pos == IF EvTick THEN ev.pos
                   ELSE IF Has(positions, ev.mint) THEN Get(positions, ev.mint)
                   ELSE NewPosition(ev.mint, 0, 0, 0, 0, "")
            st0 == IF EvTick THEN ev.before
                   ELSE [EvAfter EXCEPT !.last_price = pos.entry_price]
        IN  /\ pos.entry_price = 1000
            /\ st0 = PositionEntry(pos)
            /\ EvPrice = 600)
    => (/\ EvTick
        /\ ev.decision = "rug"
        /\ ev.row.exit_reason = "rug"
        /\ ev.row.exit_usd = (ev.pos.entry_usd * 600) \div 1000)

(***************************************************************************)
(* C20. Scenario A: a position entered at 1.00 with the default settings   *)
(* (TRAIL_K 2.8, HARD_STOP_PCT 20, gap and rug protection enabled) and     *)
(* the price path 1.00, 1.10, 1.30, 1.05: the position stays open through  *)
(* 1.00, 1.10 and 1.30 while the trail only rises and never goes under     *)
(* the hard stop 0.80, and the tick at 1.05 closes it at the trail with    *)
(* reason trail.  The path is read both ways: with a tick at 1.00, and     *)
(* with 1.00 as the entry only and the first tick at 1.10.                 *)
(***************************************************************************)
SamePrices(a, b) ==
    /\ a.vol_ema = b.vol_ema
    /\ a.peak = b.peak
    /\ a.trail = b.trail
    /\ a.prev_price = b.prev_price

ScenarioAStates(pos) ==
    LET s0  == PositionEntry(pos)
        s1  == Marked(s0, 1000)
        s2  == Marked(s1, 1100)
        s3  == Marked(s2, 1300)
        r1  == Marked(s0, 1100)
        r2  == Marked(r1, 1300)
    IN  [stay |-> {<<s0, 1000>>, <<s1, 1100>>, <<s2, 1300>>,
                   <<s0, 1100>>, <<r1, 1300>>},
         exit |-> {<<s3, 1050>>, <<r2, 1050>>}]

C20_ScenarioA ==
    (/\ RUG_ENABLED
     /\ ev.op \in {"tick_position", "loop_error"}
     /\ (EvTick \/ Has(positions, ev.mint)))
    => LET pos == IF EvTick THEN ev.pos ELSE Get(positions, ev.mint)
           st0 == IF EvTick THEN ev.before ELSE EvAfter
           S   == ScenarioAStates(pos)
       IN  pos.entry_price = 1000
           => /\ (\E s \in S.stay : SamePrices(st0, s[1]) /\ EvPrice = s[2])
                 => /\ EvTick
                    /\ ev.decision = "none"
                    /\ EvAfter.trail >= st0.trail
                    /\ EvAfter.trail >= HardStop(pos.entry_price)
              /\ (\E s \in S.exit : SamePrices(st0, s[1]) /\ EvPrice = s[2])
                 => /\ EvTick
                    /\ ev.decision = "trail"
                    /\ ev.row.exit_reason = "trail"
                    /\ ev.row.exit_usd = ExitUsd(pos, EvAfter.trail)

(***************************************************************************)
(* C21. The enabled flags are honoured independently.  On every position   *)
(* tick: a gap exit is decided only with gap protection enabled and a rug  *)
(* exit only with rug protection enabled; with gap protection enabled and  *)
(* rug protection disabled a price at or under trail x (1 - gap fraction)  *)
(* gives the gap exit; with gap protection disabled and rug protection     *)
(* enabled no gap exit is decided.                                         *)
(***************************************************************************)
C21_FlagsIndependent ==
    EvTick =>
        /\ (ev.decision = "gap" => GAP_PROTECT)
        /\ (ev.decision = "rug" => RUG_ENABLED)
        /\ (GAP_PROTECT /\ ~RUG_ENABLED /\ GapCond(EvPrice, EvAfter.trail)
              => ev.decision = "gap")
        /\ (~GAP_PROTECT /\ RUG_ENABLED => ev.decision # "gap")

(***************************************************************************)
(* C22. The Ledger is authoritative at close time: whenever the tick loop  *)
(* closes a position, under every interleaving with the radar's auto-buy   *)
(* at the loop's suspension points, the exit notional given to the Ledger  *)
(* close is entryNotional x (exitPrice / entryPrice) of the position the   *)
(* Ledger holds for the token at the close call (the one the trade record  *)
(* is written from), not of a copy read before a suspension point.         *)
(***************************************************************************)
C22_LedgerAuthoritative ==
    (EvExit /\ ev.row # NoRow)
    => LET px == IF ev.decision = "trail" THEN EvAfter.trail ELSE EvPrice
       IN  ev.row.exit_usd = (ev.row.entry_usd * px) \div ev.row.entry_price

(***************************************************************************)
(* C23. Slot cap under interleaving: in every reachable state, under every *)
(* interleaving of the chase entries with the radar's auto-buy, the number *)
(* of open Ledger positions is at most MAX_OPEN_POSITIONS.                 *)
(***************************************************************************)
C23_SlotCap == Len(positions) <= MAX_OPEN_POSITIONS

(***************************************************************************)
(* C24. add_candidate is safe to interleave with the tick loop.  A         *)
(* candidate added at a suspension point of a tick in progress: is         *)
(* inserted at most once (no token has two entries), is not lost (no step  *)
(* removes an entry), does not disturb the tick in progress (the tick's    *)
(* position, its snapshots, the Ledger and the other entries are what      *)
(* they were, and the only failure a tick meets is the mark of the         *)
(* positions pass), and is evaluated from the next tick on: when a tick    *)
(* takes the snapshot of its watch pass, every entry of the watch set      *)
(* whose token the Ledger does not hold is in it.                          *)
(***************************************************************************)
C24_AddCandidateInterleaved ==
    [][/\ (ev'.op = "add_candidate" /\ pc # "sleep")
          => (/\ pc' = pc /\ posQ' = posQ /\ watchQ' = watchQ /\ quote' = quote
              /\ positions' = positions /\ balance' = balance
              /\ \A k \in Keys(watch) : Has(watch', k) /\ Get(watch', k) = Get(watch, k)
              /\ Len(watch') <= Len(watch) + 1
              /\ ev'.added <=> (Has(watch', ev'.mint) /\ ~Has(watch, ev'.mint)))
       /\ Keys(watch) \subseteq Keys(watch')
       /\ Cardinality(Keys(watch')) = Len(watch')
       /\ ev'.op = "loop_error" => (pc = "pos_fetch" /\ ~ledgerHasMark)
       /\ (/\ pc \in {"sleep", "pos_fetch", "route_quote", "notify"}
           /\ \/ ev'.op \in {"tick", "tick_position", "route_health"}
              \/ ev'.op = "notify" /\ ev'.pass = "positions"
           /\ pc' \in {"watch_fetch", "sleep"})
          => Keys(watch') \ Keys(positions') \subseteq Range(watchQ')]_vars

\* a candidate was added while a tick was suspended at a position's price fetch
\* and now has its entry next to the position's
C24_Witness ==
    /\ ev.op = "add_candidate"
    /\ ev.added
    /\ pc = "pos_fetch"
    /\ Has(watch, ev.mint)
    /\ ~Has(positions, ev.mint)
    /\ Len(watch) = 2

(***************************************************************************)
(* C25. add_candidate's drop policy: when the watch set is full, or the    *)
(* token is already in it, or the candidate has no token identifier, the   *)
(* watch set and every entry are unchanged (nothing is evicted or          *)
(* overwritten); otherwise exactly one entry is added, after the others,   *)
(* with basePrice = lastPrice = peakPrice = the candidate's price,         *)
(* routeFailStreak 0 and volatilityEstimate 0.                             *)
(***************************************************************************)
C25_DropPolicy ==
    [][ev'.op = "add_candidate"
       => IF \/ Len(watch) >= WATCHLIST_MAX
             \/ Has(watch, ev'.mint)
             \/ ev'.mint = ""
          THEN watch' = watch /\ ~ev'.added
          ELSE /\ ev'.added
               /\ Len(watch') = Len(watch) + 1
               /\ SubSeq(watch', 1, Len(watch)) = watch
               /\ LET e == watch'[Len(watch')]
                  IN  /\ e.mint = ev'.mint
                      /\ e.base_price = ev'.price
                      /\ e.last_price = ev'.price
                      /\ e.peak = ev'.price
                      /\ e.route_fail_streak = 0
                      /\ e.vol_ema = 0]_vars

\* a candidate for a second token was dropped by a full watch set that kept its entry
C25_Witness ==
    /\ ev.op = "add_candidate"
    /\ ~ev.added
    /\ ev.mint # ""
    /\ ~Has(watch, ev.mint)
    /\ Len(watch) = WATCHLIST_MAX

(***************************************************************************)
(* C26. Tick loop liveness: the loop never terminates because of a failure *)
(* while a token is processed; after an exception raised inside a tick the *)
(* loop sleeps, and a next tick always eventually begins (as long as the   *)
(* bound on the ticks followed leaves one to begin).                       *)
(***************************************************************************)
C26_TickLiveness ==
    /\ [](pc # "stopped")
    /\ [](ev.op = "loop_error" => pc = "sleep")
    /\ (ev.op = "loop_error" /\ IdleFlags) ~> (ev.op = "tick")

\* a tick began for a position whose previous tick was aborted by the missing mark
\* (the entry has the price that tick fetched and nothing else of it)
C26_Witness ==
    /\ ev.op = "tick"
    /\ ~ledgerHasMark
    /\ pc = "pos_fetch"
    /\ LET st == Get(watch, Head(posQ).mint)
       IN  st.prev_price # 0 /\ st.last_price # st.prev_price

(***************************************************************************)
(* C27. Notifier failures are not propagated: when the notification of an  *)
(* exit or of an entry has been attempted, sent or failed, the Ledger      *)
(* close or open made before it stands, no exception reaches the loop's    *)
(* handler, and the tick goes on to the next token of its pass.            *)
(***************************************************************************)
C27_NotifierFailure ==
    [][(pc = "notify" /\ pc' # "notify")
       => (/\ ev'.op = "notify"
           /\ positions' = positions
           /\ balance' = balance
           /\ IF posQ # <<>>
              THEN IF Tail(posQ) # <<>>
                   THEN pc' = "pos_fetch" /\ posQ' = Tail(posQ)
                   ELSE /\ pc' \in {"watch_fetch", "sleep"}
                        /\ Keys(watch) \ Keys(positions) \subseteq Range(watchQ')
              ELSE /\ watchQ' = SkipHeld(Tail(watchQ), positions)
                   /\ pc' = IF watchQ' = <<>> THEN "sleep" ELSE "watch_fetch")]_vars

\* the notification of an exit at a loss failed: the position is closed, the balance
\* has the loss, and the tick is at the fetch of a watched candidate
C27_Witness ==
    /\ ev.op = "notify"
    /\ ~ev.sent
    /\ ev.pass = "positions"
    /\ ~Has(positions, ev.mint)
    /\ balance < PAPER_START_BAL_USD
    /\ pc = "watch_fetch"

(***************************************************************************)
(* C28. ema(series, span): for an empty series the result is the empty     *)
(* sequence; for a non-empty series the result has the length of the       *)
(* series, its first element is the first input, and each later element is *)
(* out[i] = out[i-1] + k x (series[i] - out[i-1]) with k = 2/(span+1),     *)
(* that is (span+1) x out[i] = (span-1) x out[i-1] + 2 x series[i].        *)
(***************************************************************************)
C28_Ema ==
    returned.fn = "ema"
    => LET v == returned.values
           o == returned.out
           s == returned.span
       IN  /\ v = <<>> => o = <<>>
           /\ v # <<>>
              => /\ Len(o) = Len(v)
                 /\ o[1] = v[1]
                 /\ \A i \in 2..Len(v) :
                       /\ o[i].den > 0
                       /\ (s + 1) * o[i].num * o[i - 1].den
                            = ((s - 1) * o[i - 1].num + 2 * v[i].num * o[i - 1].den)
                              * o[i].den

\* ema of 1, 4, 2 with span 2 is 1, 3, 7/3
C28_Witness ==
    /\ returned.fn = "ema"
    /\ returned.span = 2
    /\ returned.values = <<Rat(1, 1), Rat(4, 1), Rat(2, 1)>>
    /\ returned.out = <<Rat(1, 1), Rat(3, 1), Rat(7, 3)>>

(***************************************************************************)
(* C29. atr(highs, lows, closes, window) is ema applied to the true-range  *)
(* series, where the true range of step i is max(high_i - low_i,           *)
(* |high_i - prevClose|, |low_i - prevClose|), prevClose being the close   *)
(* of the step before and the first close at the first step; every true    *)
(* range and every ATR value is >= 0 when high_i >= low_i at every step.   *)
(***************************************************************************)
C29_Atr ==
    returned.fn = "atr"
    => LET trs == returned.trs
           o   == returned.out
       IN  /\ Len(trs) = Len(bars)
           /\ \A i \in 1..Len(bars) :
                 LET prevClose == IF i = 1 THEN bars[1].close ELSE bars[i - 1].close
                 IN  /\ trs[i].den = 1
                     /\ trs[i].num = Max(Max(bars[i].high - bars[i].low,
                                              Abs(bars[i].high - prevClose)),
                                          Abs(bars[i].low - prevClose))
           /\ o = Ema(trs, returned.window)
           /\ (\A i \in 1..Len(bars) : bars[i].high >= bars[i].low)
              => /\ \A i \in 1..Len(trs) : trs[i].num >= 0
                 /\ Len(o) = Len(trs)
                 /\ \A i \in 1..Len(o) : o[i].num >= 0 /\ o[i].den > 0

\* the second bar's true range is its distance from the previous close, which is
\* more than its own height
C29_Witness ==
    /\ returned.fn = "atr"
    /\ bars = <<[high |-> 4, low |-> 1, close |-> 1], [high |-> 4, low |-> 2, close |-> 2]>>
    /\ returned.trs = <<Rat(3, 1), Rat(3, 1)>>
    /\ returned.window = 2
    /\ returned.out = <<Rat(3, 1), Rat(3, 1)>>

(***************************************************************************)
(* C30. ATR on a constant series: when every high, low and close is the    *)
(* same constant, every value of the computed ATR is 0, for every window   *)
(* and every length of the series.                                         *)
(***************************************************************************)
C30_AtrConstant ==
    (/\ returned.fn = "atr"
     /\ \A i \in 1..Len(bars) :
           /\ bars[i].high = bars[1].close
           /\ bars[i].low = bars[1].close
           /\ bars[i].close = bars[1].close)
    => (/\ Len(returned.out) = Len(bars)
        /\ \A i \in 1..Len(bars) : returned.out[i] = Rat(0, 1))

\* three bars at 2 with the configured window
C30_Witness ==
    /\ returned.fn = "atr"
    /\ bars = [i \in 1..3 |-> [high |-> 2, low |-> 2, close |-> 2]]
    /\ returned.window = ATR_WINDOW
    /\ returned.out = <<Rat(0, 1), Rat(0, 1), Rat(0, 1)>>

C32_NoTrailExitAtPeak ==
    (EvTick /\ ev.decision = "trail") => EvPrice < ev.before.peak

(***************************************************************************)
(* C33. At most one exit per token per tick: a step that decides an exit   *)
(* for a position makes the one Ledger close call of that token in the     *)
(* tick and goes to its notification, never to the route probe or to       *)
(* another exit test; the notification is followed by the next item of the *)
(* pass, so the token is not evaluated again in the tick.                  *)
(***************************************************************************)
C33_OneExitPerTick ==
    [][/\ (ev'.op \in {"tick_position", "route_health"} /\ ev'.decision # "none")
          => (/\ ev'.mint \notin closedInTick
              /\ closedInTick' = closedInTick \cup {ev'.mint}
              /\ ev'.row \in {NoRow} \cup
                   {[side |-> "SELL", mint |-> ev'.mint, entry_usd |-> p.entry_usd,
                     entry_price |-> p.entry_price, exit_usd |-> ev'.row.exit_usd,
                     exit_reason |-> ev'.decision] : p \in Range(positions)}
              /\ Len(positions') >= Len(positions) - 1
              /\ pc' = "notify"
              /\ posQ' = posQ)
       /\ (pc = "notify" /\ posQ # <<>> /\ pc' # "notify")
          => (/\ Head(posQ).mint \in closedInTick
              /\ pc' \in {"pos_fetch", "watch_fetch", "sleep"}
              /\ Head(posQ).mint \notin Range(MintsOf(posQ'))
              /\ closedInTick' = closedInTick)
       /\ (ev'.op \in {"tick_position", "route_health"})
          => ev'.mint \notin closedInTick]_vars

\* both positions of one tick were closed, each once, and the radar bought one of
\* the two tokens again while the tick was suspended: it stays open
C33_Witness ==
    /\ closedInTick = Mints
    /\ ev.op = "notify"
    /\ ev.pass = "positions"
    /\ preempts > 0
    /\ Len(positions) = 1

\* rest is what is left of the mints full after a prefix of mints P holds
SkippedHeld(full, rest, P) ==
    \E k \in 0..Len(full) :
        /\ rest = SubSeq(full, k + 1, Len(full))
        /\ \A i \in 1..k : Has(P, full[i])

(***************************************************************************)
(* C34. Tick ordering: a tick takes the open positions of the Ledger as    *)
(* its snapshot and evaluates them one after the other, each by            *)
(* _tick_position, before it fetches for any watched candidate (or the     *)
(* tick is aborted and evaluates no candidate); the candidates pass stops  *)
(* only at tokens that hold no position when it reaches them, and every    *)
(* token it passes over holds one.                                         *)
(***************************************************************************)
C34_TickOrdering ==
    [][/\ ev'.op = "tick"
          => (/\ posQ' = positions
              /\ positions # <<>> => (pc' = "pos_fetch" /\ watchQ' = <<>>))
       /\ (posQ # <<>> /\ posQ' # posQ)
          => \/ ev'.op = "loop_error" /\ pc' = "sleep" /\ watchQ' = <<>>
             \/ /\ posQ' = Tail(posQ)
                /\ ev'.mint = Head(posQ).mint
                /\ \/ pc = "pos_fetch" /\ ev'.op = "tick_position"
                   \/ pc = "route_quote" /\ ev'.op = "route_health"
                   \/ pc = "notify" /\ ev'.op = "notify"
       /\ (pc' \in {"route_quote", "notify"} /\ pc' # pc /\ posQ' # <<>>)
          => (/\ posQ' = posQ
              /\ ev'.mint = Head(posQ).mint
              /\ \/ pc = "pos_fetch" /\ ev'.op = "tick_position"
                 \/ pc = "route_quote" /\ ev'.op = "route_health")
       /\ (pc' \in {"watch_fetch", "chase_quote", "chase_meta"} \/ watchQ' # <<>>)
          => posQ' = <<>>
       /\ ev'.op = "tick_candidate" => (pc = "watch_fetch" /\ posQ = <<>>)
       /\ (pc' = "watch_fetch" /\ (pc # "watch_fetch" \/ watchQ' # watchQ))
          => (/\ ~Has(positions', Head(watchQ'))
              /\ SkippedHeld(IF watchQ = <<>> THEN MintsOf(watch') ELSE Tail(watchQ),
                             watchQ', positions'))
       /\ (pc \in {"watch_fetch", "chase_quote", "notify"} /\ posQ = <<>> /\ pc' = "sleep")
          => \A m \in Range(Tail(watchQ)) : Has(positions', m)]_vars

\* a candidate was fetched for after the tick had evaluated the open position, whose
\* token is watched too, comes first in the watch set and was passed over
C34_Witness ==
    /\ ev.op = "tick_candidate"
    /\ ev.mint = "m2"
    /\ Len(watch) = 2
    /\ watch[1].mint = "m1"
    /\ Has(positions, "m1")
    /\ "m1" \in ticked
    /\ Get(watch, "m1").last_quote_ts = now

(***************************************************************************)
(* C35. Priority of the backtest's exit evaluator: on the bar where        *)
(* trailing_only_exits returns, the reason is gap when the gap condition   *)
(* holds; otherwise rug when the close fell by RUG_DROP_PCT or more from   *)
(* the previous close, even if the trail is hit on that bar; otherwise     *)
(* trail.                                                                  *)
(***************************************************************************)
C35_BacktestPriority ==
    (returned.fn = "trailing_only_exits" /\ returned.out.bar > 0)
    => LET i     == returned.out.bar
           trail == returned.out.trail
           h     == Rat(bars[i].high, 1)
           l     == Rat(bars[i].low, 1)
           c     == Rat(bars[i].close, 1)
           prev  == Rat(bars[i - 1].close, 1)
       IN  returned.out.reason =
               IF BarGap(GAP_PROTECT, c, trail) THEN "gap"
               ELSE IF BarRug(RUG_ENABLED, prev, c) THEN "rug"
               ELSE IF BarTrailHit(h, l, c, trail) THEN "trail"
               ELSE "none"

Others(P, mint) == SelectSeq(P, LAMBDA r : r.mint # mint)

(***************************************************************************)
(* C37. Ledger accounting frame: close_paper on a held token removes that  *)
(* token's position and no other, and changes the balance by exactly the   *)
(* exit notional less the entry notional of the removed position;          *)
(* open_paper leaves the token with one position, the one it is given      *)
(* (added, or in the place of the one it held), and leaves the balance and *)
(* the positions of the other tokens as they were.                         *)
(***************************************************************************)
C37_AccountingFrame ==
    [][/\ (ev'.op = "close_paper" /\ Has(positions, ev'.mint))
          => (/\ ~Has(positions', ev'.mint)
              /\ positions' = Others(positions, ev'.mint)
              /\ Len(positions') = Len(positions) - 1
              /\ balance' - balance
                   = ev'.row.exit_usd - Get(positions, ev'.mint).entry_usd)
       /\ ev'.op = "open_paper"
          => (/\ balance' = balance
              /\ Others(positions', ev'.mint) = Others(positions, ev'.mint)
              /\ Len(positions') = Len(Others(positions, ev'.mint)) + 1
              /\ Has(positions', ev'.mint)
              /\ Get(positions', ev'.mint).entry_usd = ev'.row.entry_usd
              /\ Get(positions', ev'.mint).entry_price = ev'.row.entry_price)]_vars

\* one of two positions was closed at a loss: the balance has the loss and the other
\* position is as it was opened
C37_Witness ==
    /\ ev.op = "close_paper"
    /\ ev.held
    /\ ev.mint = "m1"
    /\ ev.row.exit_usd < ev.row.entry_usd
    /\ balance = PAPER_START_BAL_USD + ev.row.exit_usd - ev.row.entry_usd
    /\ Len(positions) = 1
    /\ positions[1].mint = "m2"
    /\ positions[1].entry_usd = 2 * PER_TRADE_USD_TARGET
    /\ positions[1].entry_price = 2075

(***************************************************************************)
(* C38. Per-entry state invariant: the watch entry of every token whose    *)
(* open position _tick_position has evaluated has trailLevel <= peakPrice  *)
(* and peakPrice >= lastPrice, also right after the tick that closed the   *)
(* position; and the peakPrice of an entry never decreases from one step   *)
(* to the next.                                                            *)
(***************************************************************************)
C38_EntryInvariant ==
    /\ [](\A m \in Mints :
             (Has(positions, m) /\ m \in ticked /\ Has(watch, m))
             => LET st == Get(watch, m)
                IN  st.trail <= st.peak /\ st.peak >= st.last_price)
    /\ [](EvTick => (/\ EvAfter.trail <= EvAfter.peak
                     /\ EvAfter.peak >= EvAfter.last_price
                     /\ EvAfter.peak >= ev.before.peak))
    /\ [][\A m \in Mints :
             Has(watch, m) => (Has(watch', m) /\ Get(watch', m).peak >= Get(watch, m).peak)]_vars

\* a tick at a new high left the position open: the peak rose to the price and the
\* trail rose from the hard stop to a level under the peak
C38_Witness ==
    /\ EvTick
    /\ ev.decision = "none"
    /\ Has(positions, ev.mint)
    /\ EvAfter.peak > ev.before.peak
    /\ EvAfter.peak = EvAfter.last_price
    /\ ev.before.trail = HardStop(ev.pos.entry_price)
    /\ EvAfter.trail > ev.before.trail
    /\ EvAfter.trail < EvAfter.peak

====
